---- MODULE Spec2Model ----
(***************************************************************************)
(* Scrideo: the job orchestrator, the storage guardian and the caption     *)
(* compiler of src/app.py and src/helpers.py as a state machine.           *)
(*                                                                         *)
(* Every `with processing_lock:` block of the source is one atomic action. *)
(* Everything a handler or a task does outside the lock that reads or      *)
(* writes shared state (the two folders, the dictionaries) is a step of    *)
(* its own, so that other threads interleave where the source lets them.   *)
(* File sizes are counted in units of 20 MiB.                              *)
(***************************************************************************)
EXTENDS Integers, Sequences, FiniteSets, TLC

\* ------------------------------------------------------------ constants

\* src/app.py:32, 200 MiB in units of 20 MiB
TEMP_STORAGE_LIMIT == 10
\* src/app.py:448, 100 MiB in units of 20 MiB
MAX_CONTENT_LENGTH == 5
\* src/app.py:83, timedelta(hours=6)
RetentionHours == 6
\* src/app.py:119, usage / limit > 0.8, in tenths
SweepTenths == 8
\* src/app.py:587, usage > limit * 0.9, in tenths
UrlTenths == 9
\* src/helpers.py:265
max_words == 7

\* ------------------------------------------------------------ bounds

\* the clock runs from 0 to MaxClock hours, in steps of ClockStep hours
MaxClock == 12
ClockStep == 6

\* ------------------------------------------------------------ universe

\* the requests the model follows, named in their order of arrival; an
\* admitted request gets its own job id (uuid4: never reused)
Jobs == {"j1", "j2"}
Earlier(j) == IF j = "j2" THEN {"j1"} ELSE {}
Users == {"u1"}
NoToken == "no_token"

\* files of a job: <<job id, kind>>; "src" lives in UPLOAD_FOLDER, the
\* others in PROCESSED_FOLDER, all named with the job id as prefix
Kinds == {"src", "srt", "ass", "out"}

\* what the client sends to /upload
UploadShapes == {"no_video", "empty_name", "bad_ext", "ok"}
\* request.content_length: 0 when the header is absent
ContentLengths == {0, 5, 6}
\* the size of the body that video.save writes
BodySize(cl) == IF cl = 0 THEN 5 ELSE cl
\* the size of a downloaded video
DownloadSizes == {5}
\* the size of the .ass markup file
AssSize == 1
\* the size of the rendered video
OutSize(src) == src

\* what model.transcribe returns: a list of segments, each given by the
\* number of words of its text (0: empty or whitespace only)
Transcripts == {<< >>, <<0>>, <<0, 9>>}

VideoName(j) == "video_" \o j \o ".mp4"
TitleName(j) == "title_" \o j \o ".mp4"

\* ------------------------------------------------------------ state

VARIABLES
    job_status,          \* dict job id -> record             (app.py:44)
    file_timestamps,     \* dict job id -> time               (app.py:45)
    download_timestamps, \* dict job id -> time               (app.py:46)
    users,               \* dict username -> history, favorites (app.py:48)
    user_jobs,           \* dict job id -> record             (app.py:49)
    files,               \* the two folders: file -> size
    now,                 \* datetime.now(), in hours
    req,                 \* per request: the submission handler's position and locals
    task,                \* per job: process_video_task's position and locals
    del,                 \* per user: delete_history_item's position and locals
    sweep,               \* periodic_cleanup's position and locals
    seen,                \* per job: the latest pipeline stage a reader was shown
    deleted,             \* per job: deleted while its task was running
    calc,                \* one call of a caption compiler function: argument, result
    lock,                \* processing_lock: the thread that holds it (app.py:47)
    whisper_model,       \* the loaded model, or None             (app.py:52)
    model_load_lock,     \* the thread that holds it, or none     (app.py:53)
    loader,              \* per task thread: load_whisper_model's position and result
    loads                \* the whisper.load_model calls that have returned a model

\* the state of load_whisper_model
loader_vars == <<whisper_model, model_load_lock, loader, loads>>

vars == <<job_status, file_timestamps, download_timestamps, users, user_jobs,
          files, now, req, task, del, sweep, seen, deleted, calc, lock, loader_vars>>

\* ------------------------------------------------------------ processing_lock

\* the threads of the process: a request handler and a task per job, a
\* deletion per user, a reader per job, the periodic sweep, a signup per user
NoThread == <<"none", "none">>
ReqThread(j) == <<"request", j>>
TaskThread(j) == <<"task", j>>
DelThread(u) == <<"delete", u>>
ReaderThread(j) == <<"reader", j>>
SignupThread(u) == <<"signup", u>>
SweepThread == <<"sweep", "periodic_cleanup">>

\* a block `with processing_lock:` run by thread t as one step, from a free
\* lock or from the lock t has already taken, up to the release
WithLock(t) == lock \in {NoThread, t} /\ lock' = NoThread

\* ------------------------------------------------------------ dictionaries

\* d[k] = v
Empty == [x \in {} |-> 0]
Put(d, k, v) == [x \in DOMAIN d \cup {k} |-> IF x = k THEN v ELSE d[x]]
\* d.pop(k, None)
Pop(d, k) == [x \in DOMAIN d \ {k} |-> d[x]]

RECURSIVE SumSizes(_, _)
SumSizes(fs, S) ==
    IF S = {} THEN 0
    ELSE LET f == CHOOSE x \in S : TRUE
         IN fs[f] + SumSizes(fs, S \ {f})

\* get_directory_size(TEMP_BASE_DIR)
get_directory_size == SumSizes(files, DOMAIN files)

\* the files whose name starts with the job id
FilesOf(j) == {f \in DOMAIN files : f[1] = j}

\* cleanup_job_files as cleanup_old_files and delete_history_item see it: the
\* second definition (app.py:271) replaces the first (app.py:99) when the module
\* is loaded, so only files are removed, no record
cleanup_job_files(j) == [f \in DOMAIN files \ FilesOf(j) |-> files[f]]

TerminalStatuses == {"completed", "failed"}

StatusOf(j) == IF j \in DOMAIN job_status THEN job_status[j].status ELSE "none"

\* get_status: the 404 answer or a copy of the record
NotFound == [error |-> "Job not found or expired"]
get_status(j) == IF j \notin DOMAIN job_status THEN NotFound ELSE job_status[j]

\* a cutoff that takes in the jobs exactly as old as the retention window
Expired_AtWindow(j) == file_timestamps[j] <= now - RetentionHours
\* cleanup_old_files, the part under the lock: the job ids to remove, in the
\* order of file_timestamps
Expired(j) == file_timestamps[j] < now - RetentionHours
\* a scan that forgets the status test
Selected_AnyStatus(j) == Expired(j)
Selected(j) == Expired(j) /\ StatusOf(j) \in TerminalStatuses
files_to_remove == {j \in DOMAIN file_timestamps : Selected(j)}

\* ------------------------------------------------------------ initial state

IdleReq ==
    [pc |-> "idle", kind |-> "none", est |-> 0, size |-> 0, cur |-> 0, cur2 |-> 0,
     passes |-> 0, rem |-> {}, token |-> NoToken, code |-> 0]
IdleTask ==
    [pc |-> "idle", filename |-> "", is_youtube |-> FALSE, token |-> NoToken,
     transcribed |-> FALSE, segs |-> << >>, exc |-> ""]
IdleDel == [pc |-> "idle", job |-> ""]
IdleSweep == [pc |-> "sleep", rem |-> {}]
\* no compiler function is being called on its own
NoCall == [fn |-> "none"]
\* whisper_model = None (app.py:52); a model object is known by the order in
\* which whisper.load_model made it and by its name
None == [id |-> 0, name |-> "none"]
NoLoader == "none"
\* the task threads that call load_whisper_model: those of the two jobs and
\* of a third one
LoaderThreads == Jobs \cup {"j3"}
IdleLoader == [pc |-> "idle", out |-> None]
\* the module as imported: no model, the lock free, nobody calling
LoaderIdle ==
    /\ whisper_model = None
    /\ model_load_lock = NoLoader
    /\ loader = [j \in LoaderThreads |-> IdleLoader]
    /\ loads = 0

Init ==
    /\ job_status = Empty
    /\ file_timestamps = Empty
    /\ download_timestamps = Empty
    /\ users = Empty
    /\ user_jobs = Empty
    /\ files = Empty
    /\ now = 0
    /\ req = [j \in Jobs |-> IdleReq]
    /\ task = [j \in Jobs |-> IdleTask]
    /\ del = [u \in Users |-> IdleDel]
    /\ sweep = IdleSweep
    /\ seen = [j \in Jobs |-> "none"]
    /\ deleted = [j \in Jobs |-> FALSE]
    /\ LoaderIdle
    /\ calc = NoCall
    /\ lock = NoThread

\* ------------------------------------------------------------ accounts

\* signup: a new user with an empty history; the token names the user
signup(u) ==
    /\ u \notin DOMAIN users
    /\ users' = Put(users, u, [history |-> << >>, favorites |-> {}])
    /\ WithLock(SignupThread(u))
    /\ UNCHANGED <<loader_vars, calc, job_status, file_timestamps, download_timestamps, user_jobs,
                   files, now, req, task, del, sweep, seen, deleted>>

\* the tokens a client can hold: none, or one signed for a user that signed up
IssuedTokens == {NoToken} \cup DOMAIN users

\* verify_token followed by `username in users`
ValidUser(tok) == tok # NoToken /\ tok \in DOMAIN users

\* users[username]['history'].append(job_id), when the token names a user
AppendHistory(us, tok, j) ==
    IF ValidUser(tok)
    THEN [us EXCEPT ![tok].history = Append(@, j)]
    ELSE us

\* ------------------------------------------------------------ the clock

Tick ==
    /\ now + ClockStep <= MaxClock
    /\ now' = now + ClockStep
    /\ UNCHANGED <<loader_vars, calc, lock, job_status, file_timestamps, download_timestamps, users,
                   user_jobs, files, req, task, del, sweep, seen, deleted>>

\* ------------------------------------------------------------ submission

\* process_video_task's thread, as threading.Thread(...).start() creates it
StartedTask(fn, yt, tok) ==
    [pc |-> "start", filename |-> fn, is_youtube |-> yt, token |-> tok,
     transcribed |-> FALSE, segs |-> << >>, exc |-> ""]

\* an admission test that refuses at the ceiling already
OverCeiling_AtCeiling(usage, est) == usage + est >= TEMP_STORAGE_LIMIT
\* the admission test of upload_video (app.py:453, 455)
OverCeiling(usage, est) == usage + est > TEMP_STORAGE_LIMIT
\* the admission test of transcribe_video_url (app.py:587, 589)
OverUrlThreshold(usage) == usage * 10 > TEMP_STORAGE_LIMIT * UrlTenths

\* upload_video up to the first storage check (app.py:435-453)
UploadBegin(j) ==
    /\ req[j].pc = "idle"
    /\ \A k \in Earlier(j) : req[k].pc # "idle"
    /\ \E shape \in UploadShapes, cl \in ContentLengths, tok \in IssuedTokens :
         IF shape # "ok" \/ cl > MAX_CONTENT_LENGTH
         THEN req' = [req EXCEPT ![j] = [@ EXCEPT !.pc = "done", !.kind = "upload",
                                                   !.code = 400]]
         ELSE LET cur == get_directory_size
              IN req' = [req EXCEPT ![j] =
                          [@ EXCEPT !.pc = IF OverCeiling(cur, cl) THEN "scan" ELSE "save",
                                    !.kind = "upload", !.est = cl, !.size = BodySize(cl),
                                    !.cur = cur, !.token = tok]]
    /\ UNCHANGED <<loader_vars, calc, lock, job_status, file_timestamps, download_timestamps, users,
                   user_jobs, files, now, task, del, sweep, seen, deleted>>

\* transcribe_video_url up to the first storage check (app.py:579-587)
UrlBegin(j) ==
    /\ req[j].pc = "idle"
    /\ \A k \in Earlier(j) : req[k].pc # "idle"
    /\ \E has_url \in BOOLEAN, tok \in IssuedTokens :
         IF ~has_url
         THEN req' = [req EXCEPT ![j] = [@ EXCEPT !.pc = "done", !.kind = "url",
                                                   !.code = 400]]
         ELSE LET cur == get_directory_size
              IN req' = [req EXCEPT ![j] =
                          [@ EXCEPT !.pc = IF OverUrlThreshold(cur) THEN "scan"
                                           ELSE "record_url",
                                    !.kind = "url", !.cur = cur, !.token = tok]]
    /\ UNCHANGED <<loader_vars, calc, lock, job_status, file_timestamps, download_timestamps, users,
                   user_jobs, files, now, task, del, sweep, seen, deleted>>

\* cleanup_old_files called by a submission: the scan under the lock
\* (app.py:86-91)
ReqScan(j) ==
    /\ req[j].pc = "scan"
    /\ LET rem == files_to_remove
       IN req' = [req EXCEPT ![j] =
                   [@ EXCEPT !.pc = IF rem = {} THEN "check2" ELSE "clean",
                             !.rem = rem, !.passes = @ + 1]]
    /\ WithLock(ReqThread(j))
    /\ UNCHANGED <<loader_vars, calc, job_status, file_timestamps, download_timestamps, users,
                   user_jobs, files, now, task, del, sweep, seen, deleted>>

\* cleanup_old_files called by a submission: one cleanup_job_files call of the
\* loop after the lock is released (app.py:93-95)
ReqClean(j) ==
    /\ req[j].pc = "clean"
    /\ \E k \in req[j].rem :
         /\ files' = cleanup_job_files(k)
         /\ req' = [req EXCEPT ![j] =
                     [@ EXCEPT !.pc = IF req[j].rem = {k} THEN "check2" ELSE "clean",
                               !.rem = @ \ {k}]]
    /\ UNCHANGED <<loader_vars, calc, lock, job_status, file_timestamps, download_timestamps, users,
                   user_jobs, now, task, del, sweep, seen, deleted>>

\* the second storage check, after the pass (app.py:455-456, 589-590)
ReqCheck2(j) ==
    /\ req[j].pc = "check2"
    /\ LET cur2 == get_directory_size
           over == IF req[j].kind = "upload" THEN OverCeiling(cur2, req[j].est)
                   ELSE OverUrlThreshold(cur2)
       IN req' = [req EXCEPT ![j] =
                   [@ EXCEPT !.pc = IF over THEN "done"
                                    ELSE IF req[j].kind = "upload" THEN "save"
                                    ELSE "record_url",
                             !.cur2 = cur2,
                             !.code = IF over THEN 507 ELSE 0]]
    /\ UNCHANGED <<loader_vars, calc, lock, job_status, file_timestamps, download_timestamps, users,
                   user_jobs, files, now, task, del, sweep, seen, deleted>>

\* upload_video: video.save(filepath), which may fail (app.py:458-465, 489-491)
UploadSave(j) ==
    /\ req[j].pc = "save"
    /\ \E saved \in BOOLEAN :
         IF saved
         THEN /\ files' = Put(files, <<j, "src">>, req[j].size)
              /\ req' = [req EXCEPT ![j].pc = "record"]
         ELSE /\ files' = files
              /\ req' = [req EXCEPT ![j] = [@ EXCEPT !.pc = "done", !.code = 500]]
    /\ UNCHANGED <<loader_vars, calc, lock, job_status, file_timestamps, download_timestamps, users,
                   user_jobs, now, task, del, sweep, seen, deleted>>

\* upload_video: the record written under the lock, the thread started and
\* the job id returned (app.py:466-488)
UploadRecord(j) ==
    /\ req[j].pc = "record"
    /\ file_timestamps' = Put(file_timestamps, j, now)
    /\ job_status' = Put(job_status, j, [status |-> "uploaded", filename |-> VideoName(j)])
    /\ task' = [task EXCEPT ![j] = StartedTask(VideoName(j), FALSE, req[j].token)]
    /\ req' = [req EXCEPT ![j] = [@ EXCEPT !.pc = "done", !.code = 202]]
    /\ WithLock(ReqThread(j))
    /\ UNCHANGED <<loader_vars, calc, download_timestamps, users, user_jobs, files, now, del, sweep,
                   seen, deleted>>

\* transcribe_video_url: the record written under the lock (app.py:595-597)
UrlRecord(j) ==
    /\ req[j].pc = "record_url"
    /\ job_status' = Put(job_status, j, [status |-> "downloading", filename |-> "YouTube Video"])
    /\ file_timestamps' = Put(file_timestamps, j, now)
    /\ req' = [req EXCEPT ![j].pc = "download"]
    /\ WithLock(ReqThread(j))
    /\ UNCHANGED <<loader_vars, calc, download_timestamps, users, user_jobs, files, now, task, del,
                   sweep, seen, deleted>>

\* transcribe_video_url: download_youtube_video inside the handler, then the
\* thread started and the job id returned, or the exception (app.py:599-612)
UrlDownload(j) ==
    /\ req[j].pc = "download"
    /\ \/ \E d \in DownloadSizes :
            /\ files' = Put(files, <<j, "src">>, d)
            /\ task' = [task EXCEPT ![j] = StartedTask(TitleName(j), TRUE, req[j].token)]
            /\ req' = [req EXCEPT ![j] = [@ EXCEPT !.pc = "done", !.size = d, !.code = 202]]
       \/ /\ req' = [req EXCEPT ![j].pc = "except"]
          /\ UNCHANGED <<files, task>>
    /\ UNCHANGED <<loader_vars, calc, lock, job_status, file_timestamps, download_timestamps, users,
                   user_jobs, now, del, sweep, seen, deleted>>

\* transcribe_video_url: the except block (app.py:612-620)
UrlExcept(j) ==
    /\ req[j].pc = "except"
    /\ job_status' = Put(job_status, j,
                         [status |-> "failed", filename |-> "YouTube Video",
                          error |-> "Failed to download YouTube video"])
    /\ req' = [req EXCEPT ![j] = [@ EXCEPT !.pc = "done", !.code = 500]]
    /\ WithLock(ReqThread(j))
    /\ UNCHANGED <<loader_vars, calc, file_timestamps, download_timestamps, users, user_jobs, files,
                   now, task, del, sweep, seen, deleted>>

\* ------------------------------------------------------------ caption compiler

\* generate_srt: the number of cues one segment of n words gives
\* (helpers.py:260-281): none for an empty text, one up to max_words, and
\* one per chunk of max_words beyond
CuesOf(n) ==
    IF n = 0 THEN 0
    ELSE IF n <= max_words THEN 1
    ELSE (n + max_words - 1) \div max_words

RECURSIVE NumCues(_)
NumCues(segs) ==
    IF segs = << >> THEN 0 ELSE CuesOf(Head(segs)) + NumCues(Tail(segs))

\* a generate_srt that accepts an empty file
SrtEmpty_Never(segs) == FALSE
\* generate_srt raises "SRT file empty" when nothing was written
\* (helpers.py:282-283); the file's size is counted in cues
SrtEmpty(segs) == NumCues(segs) = 0

\* process_video_task's test of the transcription result (app.py:357)
NoSegments(result) == result = << >>

\* ------------------------------------------------------------ the job's task

Raise(j, msg) == [task EXCEPT ![j] = [@ EXCEPT !.pc = "except", !.exc = msg]]
Goto(j, pc) == [task EXCEPT ![j].pc = pc]

\* the status written at a stage change (app.py:352, 361, 381)
StageRecord(j, stage) == [status |-> stage, filename |-> task[j].filename]

\* app.py:351-352
TaskStart(j) ==
    /\ task[j].pc = "start"
    /\ job_status' = Put(job_status, j, StageRecord(j, "transcribing"))
    /\ task' = Goto(j, "transcribe")
    /\ WithLock(TaskThread(j))
    /\ UNCHANGED <<loader_vars, calc, file_timestamps, download_timestamps, users, user_jobs, files,
                   now, req, del, sweep, seen, deleted>>

\* load_whisper_model and model.transcribe, outside the lock (app.py:354-358)
TaskTranscribe(j) ==
    /\ task[j].pc = "transcribe"
    /\ IF <<j, "src">> \notin DOMAIN files
       THEN task' = Raise(j, "Transcription failed")
       ELSE \/ task' = Raise(j, "Transcription failed")
            \/ \E result \in Transcripts :
                 IF NoSegments(result)
                 THEN task' = [task EXCEPT ![j] = [@ EXCEPT !.pc = "except",
                                                            !.transcribed = TRUE,
                                                            !.segs = result,
                                                            !.exc = "No speech detected"]]
                 ELSE task' = [task EXCEPT ![j] = [@ EXCEPT !.pc = "w_gen",
                                                            !.transcribed = TRUE,
                                                            !.segs = result]]
    /\ UNCHANGED <<loader_vars, calc, lock, job_status, file_timestamps, download_timestamps, users,
                   user_jobs, files, now, req, del, sweep, seen, deleted>>

\* a stage write that puts the job back to its first stage
TaskWriteGenerating_Regressing(j) ==
    /\ task[j].pc = "w_gen"
    /\ job_status' = Put(job_status, j, StageRecord(j, "uploaded"))
    /\ task' = Goto(j, "generate_srt")
    /\ WithLock(TaskThread(j))
    /\ UNCHANGED <<loader_vars, calc, file_timestamps, download_timestamps, users, user_jobs, files,
                   now, req, del, sweep, seen, deleted>>

\* app.py:360-361
TaskWriteGenerating(j) ==
    /\ task[j].pc = "w_gen"
    /\ job_status' = Put(job_status, j, StageRecord(j, "generating_captions"))
    /\ task' = Goto(j, "generate_srt")
    /\ WithLock(TaskThread(j))
    /\ UNCHANGED <<loader_vars, calc, file_timestamps, download_timestamps, users, user_jobs, files,
                   now, req, del, sweep, seen, deleted>>

\* generate_srt(result["segments"], srt_path) (app.py:373, helpers.py:254-288):
\* the file is opened for writing, so it exists afterwards even when empty
TaskGenerateSrt(j) ==
    /\ task[j].pc = "generate_srt"
    /\ files' = Put(files, <<j, "srt">>, NumCues(task[j].segs))
    /\ task' = IF SrtEmpty(task[j].segs) THEN Raise(j, "SRT file empty")
               ELSE Goto(j, "w_emb")
    /\ UNCHANGED <<loader_vars, calc, lock, job_status, file_timestamps, download_timestamps, users,
                   user_jobs, now, req, del, sweep, seen, deleted>>

\* a task that goes on to the overlay without its status write
TaskWriteEmbedding_Silent(j) ==
    /\ task[j].pc = "w_emb"
    /\ task' = Goto(j, "overlay")
    /\ UNCHANGED <<loader_vars, calc, lock, job_status, file_timestamps, download_timestamps,
                   users, user_jobs, files, now, req, del, sweep, seen, deleted>>

\* app.py:380-381
TaskWriteEmbedding(j) ==
    /\ task[j].pc = "w_emb"
    /\ job_status' = Put(job_status, j, StageRecord(j, "embedding_subtitles"))
    /\ task' = Goto(j, "overlay")
    /\ WithLock(TaskThread(j))
    /\ UNCHANGED <<loader_vars, calc, file_timestamps, download_timestamps, users, user_jobs, files,
                   now, req, del, sweep, seen, deleted>>

\* overlay_subtitles up to the markup file (helpers.py:315-323)
TaskOverlayAss(j) ==
    /\ task[j].pc = "overlay"
    /\ IF <<j, "src">> \notin DOMAIN files
       THEN /\ task' = Raise(j, "Overlay failed: Input not found")
            /\ files' = files
       ELSE IF <<j, "srt">> \notin DOMAIN files
       THEN /\ task' = Raise(j, "Overlay failed: SRT not found")
            /\ files' = files
       ELSE /\ files' = Put(files, <<j, "ass">>, AssSize)
            /\ task' = Goto(j, "ffmpeg")
    /\ UNCHANGED <<loader_vars, calc, lock, job_status, file_timestamps, download_timestamps, users,
                   user_jobs, now, req, del, sweep, seen, deleted>>

\* a renderer run without a timeout: the task waits for it for ever
TaskFfmpeg_NoTimeout(j) ==
    /\ task[j].pc = "ffmpeg"
    /\ task' = Goto(j, "waiting")
    /\ UNCHANGED <<loader_vars, calc, lock, job_status, file_timestamps, download_timestamps,
                   users, user_jobs, files, now, req, del, sweep, seen, deleted>>

\* overlay_subtitles: the renderer run under its timeout, the test of its
\* output and the removal of the markup file, whose failure is logged and
\* nothing more (helpers.py:362-389)
FfmpegOutcomes == {"ok", "error", "timeout", "empty"}
TaskFfmpeg(j) ==
    /\ task[j].pc = "ffmpeg"
    /\ IF <<j, "src">> \notin DOMAIN files \/ <<j, "ass">> \notin DOMAIN files
       THEN /\ task' = Raise(j, "FFmpeg error")
            /\ files' = files
       ELSE \E r \in FfmpegOutcomes :
              CASE r = "ok" ->
                     /\ \E ass_removed \in BOOLEAN :
                          LET written == Put(files, <<j, "out">>,
                                             OutSize(files[<<j, "src">>]))
                          IN files' = IF ass_removed THEN Pop(written, <<j, "ass">>)
                                      ELSE written
                     /\ task' = Goto(j, "chk_out")
                [] r = "error" ->
                     /\ files' = files
                     /\ task' = Raise(j, "FFmpeg error")
                [] r = "timeout" ->
                     /\ files' = files
                     /\ task' = Raise(j, "FFmpeg timed out (5 min)")
                [] r = "empty" ->
                     /\ files' = Put(files, <<j, "out">>, 0)
                     /\ task' = Raise(j, "Overlay failed: FFmpeg produced empty output")
    /\ UNCHANGED <<loader_vars, calc, lock, job_status, file_timestamps, download_timestamps, users,
                   user_jobs, now, req, del, sweep, seen, deleted>>

\* if os.path.exists(output_video_path) (app.py:386, 409-410)
TaskCheckOutput(j) ==
    /\ task[j].pc = "chk_out"
    /\ task' = IF <<j, "out">> \in DOMAIN files THEN Goto(j, "w_done")
               ELSE Raise(j, "Output video not created")
    /\ UNCHANGED <<loader_vars, calc, lock, job_status, file_timestamps, download_timestamps, users,
                   user_jobs, files, now, req, del, sweep, seen, deleted>>

\* job_info of the success path (app.py:390-398)
CompletedRecord(j) ==
    [status |-> "completed", filename |-> task[j].filename,
     download_url |-> "/download/" \o j \o "_with_subtitles",
     transcription |-> task[j].segs]

\* an except block that forgets the error text
FailedRecord_NoError(j) == [status |-> "failed", filename |-> task[j].filename]
\* job_info of the except block (app.py:418-425)
FailedRecord(j) ==
    [status |-> "failed", filename |-> task[j].filename, error |-> task[j].exc]

\* a final write that keeps one slot for all jobs
WriteFinal_OneSlot(j, job_info) ==
    /\ job_status' = Put(job_status, "j1", job_info)
    /\ user_jobs' = Put(user_jobs, "j1", job_info)
    /\ users' = AppendHistory(users, task[j].token, j)
\* the records written under the lock at the end of the task
\* (app.py:399-404, 426-431)
WriteFinal(j, job_info) ==
    /\ job_status' = Put(job_status, j, job_info)
    /\ user_jobs' = Put(user_jobs, j, job_info)
    /\ users' = AppendHistory(users, task[j].token, j)

\* app.py:389-404
TaskWriteCompleted(j) ==
    /\ task[j].pc = "w_done"
    /\ WriteFinal(j, CompletedRecord(j))
    /\ task' = Goto(j, "chk_src")
    /\ WithLock(TaskThread(j))
    /\ UNCHANGED <<loader_vars, calc, file_timestamps, download_timestamps, files, now, req, del,
                   sweep, seen, deleted>>

\* if os.path.exists(filepath) (app.py:405); if os.path.exists(srt_path) (app.py:407)
TaskCheckExists(j, kind, pc_here, pc_remove, pc_skip) ==
    /\ task[j].pc = pc_here
    /\ task' = IF <<j, kind>> \in DOMAIN files THEN Goto(j, pc_remove)
               ELSE Goto(j, pc_skip)
    /\ UNCHANGED <<loader_vars, calc, lock, job_status, file_timestamps, download_timestamps, users,
                   user_jobs, files, now, req, del, sweep, seen, deleted>>

\* os.remove(filepath) (app.py:406); os.remove(srt_path) (app.py:408): raises
\* when the file is gone since the test, or when the system refuses
TaskRemove(j, kind, pc_here, pc_next) ==
    /\ task[j].pc = pc_here
    /\ IF <<j, kind>> \notin DOMAIN files
       THEN /\ task' = Raise(j, "os.remove failed")
            /\ files' = files
       ELSE \/ /\ files' = Pop(files, <<j, kind>>)
               /\ task' = Goto(j, pc_next)
            \/ /\ files' = files
               /\ task' = Raise(j, "os.remove failed")
    /\ UNCHANGED <<loader_vars, calc, lock, job_status, file_timestamps, download_timestamps, users,
                   user_jobs, now, req, del, sweep, seen, deleted>>

TaskCheckSrc(j) == TaskCheckExists(j, "src", "chk_src", "rm_src", "chk_srt")
TaskRemoveSrc(j) == TaskRemove(j, "src", "rm_src", "chk_srt")
TaskCheckSrt(j) == TaskCheckExists(j, "srt", "chk_srt", "rm_srt", "done")
TaskRemoveSrt(j) == TaskRemove(j, "srt", "rm_srt", "done")

\* the except block (app.py:414-431)
TaskExcept(j) ==
    /\ task[j].pc = "except"
    /\ WriteFinal(j, FailedRecord(j))
    /\ task' = Goto(j, "done")
    /\ WithLock(TaskThread(j))
    /\ UNCHANGED <<loader_vars, calc, file_timestamps, download_timestamps, files, now, req, del,
                   sweep, seen, deleted>>

TaskRunning(j) == task[j].pc \notin {"idle", "done"}

process_video_task(j) ==
    \/ TaskStart(j)
    \/ TaskTranscribe(j)
    \/ TaskWriteGenerating(j)
    \/ TaskGenerateSrt(j)
    \/ TaskWriteEmbedding(j)
    \/ TaskOverlayAss(j)
    \/ TaskFfmpeg(j)
    \/ TaskCheckOutput(j)
    \/ TaskWriteCompleted(j)
    \/ TaskCheckSrc(j)
    \/ TaskRemoveSrc(j)
    \/ TaskCheckSrt(j)
    \/ TaskRemoveSrt(j)
    \/ TaskExcept(j)

\* ------------------------------------------------------------ deletion

\* list.remove(x): the first occurrence only
RECURSIVE RemoveFirst(_, _)
RemoveFirst(s, x) ==
    IF s = << >> THEN << >>
    ELSE IF Head(s) = x THEN Tail(s)
    ELSE <<Head(s)>> \o RemoveFirst(Tail(s), x)

\* delete_history_item, the part under the lock (app.py:240-263)
DeleteLocked(u, j) ==
    /\ del[u].pc = "idle"
    /\ u \in DOMAIN users
    /\ req[j].code = 202
    /\ users' = [users EXCEPT
                   ![u].history = RemoveFirst(@, j),
                   ![u].favorites = @ \ {j}]
    /\ job_status' = Pop(job_status, j)
    /\ user_jobs' = Pop(user_jobs, j)
    /\ file_timestamps' = Pop(file_timestamps, j)
    /\ download_timestamps' = Pop(download_timestamps, j)
    /\ del' = [del EXCEPT ![u] = [pc |-> "cleanup", job |-> j]]
    /\ deleted' = [deleted EXCEPT ![j] = @ \/ TaskRunning(j)]
    /\ WithLock(DelThread(u))
    /\ UNCHANGED <<loader_vars, calc, files, now, req, task, sweep, seen>>

\* delete_history_item: cleanup_job_files after the lock (app.py:266)
DeleteCleanup(u) ==
    /\ del[u].pc = "cleanup"
    /\ files' = cleanup_job_files(del[u].job)
    /\ del' = [del EXCEPT ![u] = IdleDel]
    /\ UNCHANGED <<loader_vars, calc, lock, job_status, file_timestamps, download_timestamps, users,
                   user_jobs, now, req, task, sweep, seen, deleted>>

\* ------------------------------------------------------------ the periodic sweep

\* periodic_cleanup: one tick (app.py:117-120)
\* a tick that also sweeps when the usage is exactly at the fraction
OverSweepThreshold_AtFraction(usage) == usage * 10 >= TEMP_STORAGE_LIMIT * SweepTenths
OverSweepThreshold(usage) == usage * 10 > TEMP_STORAGE_LIMIT * SweepTenths

SweepTick ==
    /\ sweep.pc = "sleep"
    /\ sweep' = [sweep EXCEPT !.pc = IF OverSweepThreshold(get_directory_size)
                                     THEN "scan" ELSE "sleep"]
    /\ UNCHANGED <<loader_vars, calc, lock, job_status, file_timestamps, download_timestamps, users,
                   user_jobs, files, now, req, task, del, seen, deleted>>

\* cleanup_old_files called by the sweep: the scan under the lock
SweepScan ==
    /\ sweep.pc = "scan"
    /\ LET rem == files_to_remove
       IN sweep' = [pc |-> IF rem = {} THEN "sleep" ELSE "clean", rem |-> rem]
    /\ WithLock(SweepThread)
    /\ UNCHANGED <<loader_vars, calc, job_status, file_timestamps, download_timestamps, users,
                   user_jobs, files, now, req, task, del, seen, deleted>>

\* cleanup_old_files called by the sweep: one cleanup_job_files call
SweepClean ==
    /\ sweep.pc = "clean"
    /\ \E k \in sweep.rem :
         /\ files' = cleanup_job_files(k)
         /\ sweep' = [pc |-> IF sweep.rem = {k} THEN "sleep" ELSE "clean",
                      rem |-> sweep.rem \ {k}]
    /\ UNCHANGED <<loader_vars, calc, lock, job_status, file_timestamps, download_timestamps, users,
                   user_jobs, now, req, task, del, seen, deleted>>

periodic_cleanup == SweepTick \/ SweepScan \/ SweepClean

\* ------------------------------------------------------------ readers

PipelineStages ==
    {"uploaded", "downloading", "transcribing", "generating_captions",
     "embedding_subtitles", "completed"}

\* a client polls /status/<job_id> and keeps the stage it was shown
Poll(j) ==
    /\ get_status(j) # NotFound
    /\ get_status(j).status \in PipelineStages
    /\ seen' = [seen EXCEPT ![j] = get_status(j).status]
    /\ WithLock(ReaderThread(j))
    /\ UNCHANGED <<loader_vars, calc, job_status, file_timestamps, download_timestamps, users,
                   user_jobs, files, now, req, task, del, sweep, deleted>>

\* download_file: the download is stamped under the lock (app.py:505-511)
download_file(j) ==
    /\ <<j, "out">> \in DOMAIN files
    /\ req[j].code = 202
    /\ download_timestamps' = Put(download_timestamps, j, now)
    /\ WithLock(ReaderThread(j))
    /\ UNCHANGED <<loader_vars, calc, job_status, file_timestamps, users, user_jobs, files, now,
                   req, task, del, sweep, seen, deleted>>

\* ------------------------------------------------------------ the system

\* cleanup_old_files as a submission runs it before its second check
ReqReclaim(j) == ReqScan(j) \/ ReqClean(j) \/ ReqCheck2(j)

upload_video(j) == UploadBegin(j) \/ UploadSave(j) \/ UploadRecord(j)

transcribe_video_url(j) == UrlBegin(j) \/ UrlRecord(j) \/ UrlDownload(j) \/ UrlExcept(j)

\* One request and its job, with every other thread of the process around
\* it: the clock, the readers, the deletions and the periodic sweep. A lone
\* request finds the folders empty, so its first storage check never fails
\* and ReqReclaim has no step to take here.
Solo == {"j1"}

Next ==
    \/ \E u \in Users : signup(u)
    \/ Tick
    \/ \E j \in Solo : upload_video(j)
    \/ \E j \in Solo : transcribe_video_url(j)
    \/ \E j \in Solo : process_video_task(j)
    \/ \E u \in Users, j \in Solo : DeleteLocked(u, j)
    \/ \E u \in Users : DeleteCleanup(u)
    \/ periodic_cleanup
    \/ \E j \in Solo : Poll(j)
    \/ \E j \in Solo : download_file(j)

Spec == Init /\ [][Next]_vars

\* Two anonymous requests side by side, with the clock: the second one finds
\* what the first one left in the folders, so the reclaim pass of a
\* submission runs.
NextPair ==
    \/ Tick
    \/ \E j \in Jobs : upload_video(j)
    \/ \E j \in Jobs : transcribe_video_url(j)
    \/ \E j \in Jobs : ReqReclaim(j)
    \/ \E j \in Jobs : process_video_task(j)

SpecPair == Init /\ [][NextPair]_vars

\* ------------------------------------------------------------ properties

\* the pipeline order of the stages a reader can be shown
StageRank(st) ==
    CASE st \in {"uploaded", "downloading"} -> 0
      [] st = "transcribing" -> 1
      [] st = "generating_captions" -> 2
      [] st = "embedding_subtitles" -> 3
      [] st = "completed" -> 4
      [] OTHER -> -1

NonTerminalStages == PipelineStages \ {"completed"}

\* C1: once a reader was shown a job at some stage, the job's record is never
\* at an earlier stage of the pipeline again, so no later read returns one,
\* whatever the task, the deletions, the sweep and the readers do in between.
C1_StatusMonotonic ==
    \A j \in Jobs :
        (seen[j] # "none" /\ StatusOf(j) \in PipelineStages)
            => StageRank(StatusOf(j)) >= StageRank(seen[j])

\* a reader was shown the job while it was transcribed, the job was deleted
\* under its task, and the task has written completed since
C1_Witness ==
    /\ seen["j1"] = "transcribing"
    /\ deleted["j1"]
    /\ StatusOf("j1") = "completed"

\* C2: once a job's status is completed or failed, no step changes it: the
\* record keeps that status for as long as it exists.
C2_TerminalIsFinal ==
    [][\A j \in Jobs :
          (StatusOf(j) \in TerminalStatuses /\ j \in DOMAIN job_status')
              => job_status'[j].status = StatusOf(j)]_vars

\* C3: a job deleted while its task was running is absent from job_status and
\* user_jobs once the task has finished, and get_status answers not found.
C3_NoResurrection ==
    \A j \in Jobs :
        (deleted[j] /\ task[j].pc = "done" /\ \A u \in Users : del[u].pc = "idle")
            => /\ j \notin DOMAIN job_status
               /\ j \notin DOMAIN user_jobs
               /\ get_status(j) = NotFound

\* the job ids a reclaim pass still has to clean
PendingReclaim == sweep.rem \cup UNION {req[j].rem : j \in Jobs}

\* C4: no job on the removal list of a reclaim pass has a non-terminal
\* status, from the scan under the lock to the removal of its files after
\* the lock is released.
C4_ReclaimSparesRunningJobs ==
    \A k \in PendingReclaim : StatusOf(k) \notin NonTerminalStages

\* the sweep is about to remove the files of a job it selected, a terminal
\* job whose task is still between its last status write and its end
C4_Witness ==
    /\ sweep.pc = "clean"
    /\ "j1" \in sweep.rem
    /\ FilesOf("j1") # {}
    /\ StatusOf("j1") \in TerminalStatuses
    /\ TaskRunning("j1")

\* a reclaim pass, of a submission or of the sweep, cleans job k in this step
Reclaims(k) ==
    \/ sweep.pc = "clean" /\ k \in sweep.rem /\ k \notin sweep'.rem
    \/ \E j \in Jobs : req[j].pc = "clean" /\ k \in req[j].rem /\ k \notin req'[j].rem

\* C5: when a reclaim pass has cleaned a job it selected, the job has no
\* file left and no entry in job_status, file_timestamps and
\* download_timestamps, so that get_status answers not found.
C5_ReclaimRemovesJob ==
    [][\A k \in Jobs :
          Reclaims(k)
              => /\ \A f \in DOMAIN files' : f[1] # k
                 /\ k \notin DOMAIN job_status'
                 /\ k \notin DOMAIN file_timestamps'
                 /\ k \notin DOMAIN download_timestamps']_vars

\* an upload that passed validation and made its first storage check
Checked(j) == req[j].kind = "upload" /\ req[j].pc # "idle" /\ req[j].code # 400
\* an upload that passed admission
Admitted(j) ==
    /\ Checked(j)
    /\ \/ req[j].pc \in {"save", "record"}
       \/ (req[j].pc = "done" /\ req[j].code \in {202, 500})
\* an upload refused with 'Server storage full'
Refused(j) == Checked(j) /\ req[j].pc = "done" /\ req[j].code = 507

\* C6: an upload of estimated size est that found usage cur runs a reclaim
\* pass exactly when cur + est is over the ceiling, and never a second one;
\* it is refused, with no job created, when the usage cur2 found after the
\* pass still gives cur2 + est over the ceiling, and admitted when cur + est
\* or, after the pass, cur2 + est is at or under the ceiling.
C6_Admission ==
    \A j \in Jobs :
        Checked(j) =>
            /\ req[j].passes <= 1
            /\ (req[j].pc \notin {"scan"} /\ req[j].cur + req[j].est > TEMP_STORAGE_LIMIT)
                   => req[j].passes = 1
            /\ req[j].cur + req[j].est <= TEMP_STORAGE_LIMIT
                   => (req[j].passes = 0 /\ Admitted(j))
            /\ Refused(j)
                   => /\ req[j].passes = 1
                      /\ req[j].cur2 + req[j].est > TEMP_STORAGE_LIMIT
                      /\ j \notin DOMAIN job_status
                      /\ j \notin DOMAIN file_timestamps
                      /\ task[j].pc = "idle"
            /\ (Admitted(j) /\ req[j].passes = 1)
                   => req[j].cur2 + req[j].est <= TEMP_STORAGE_LIMIT
            /\ (req[j].pc = "done" /\ req[j].passes = 1
                    /\ req[j].cur2 + req[j].est <= TEMP_STORAGE_LIMIT)
                   => Admitted(j)

\* an upload found the folders too full, its reclaim pass freed the files of
\* an old terminal job, and it was admitted and its job created
C6_Witness ==
    /\ req["j2"].kind = "upload"
    /\ req["j2"].passes = 1
    /\ req["j2"].cur + req["j2"].est > TEMP_STORAGE_LIMIT
    /\ req["j2"].cur2 + req["j2"].est <= TEMP_STORAGE_LIMIT
    /\ req["j2"].code = 202
    /\ "j2" \in DOMAIN job_status

\* C7: the bytes stored under the managed root never exceed the ceiling.
C7_UsageUnderCeiling == get_directory_size <= TEMP_STORAGE_LIMIT

\* C8: a submission that returned an error has left no record of a new job
\* in job_status or file_timestamps.
C8_ErrorLeavesNoJob ==
    \A j \in Jobs :
        (req[j].pc = "done" /\ req[j].code \in {400, 500, 507})
            => (j \notin DOMAIN job_status /\ j \notin DOMAIN file_timestamps)

\* C9: a record of job_status has an error field exactly when its status is
\* failed and a download_url exactly when its status is completed; and a
\* task that met an error has ended with the record failed and the error's
\* text on it, its caller having got the job id and no error.
C9_ErrorAndOutputFields ==
    /\ \A j \in DOMAIN job_status :
          /\ ("error" \in DOMAIN job_status[j]) <=> (job_status[j].status = "failed")
          /\ ("download_url" \in DOMAIN job_status[j])
                 <=> (job_status[j].status = "completed")
    /\ \A j \in Jobs :
          (task[j].exc # "" /\ task[j].pc = "done")
              => /\ req[j].code = 202
                 /\ j \in DOMAIN job_status
                        => /\ job_status[j].status = "failed"
                           /\ job_status[j].error = task[j].exc

\* the renderer timed out and the task has ended with the record failed
C9_Witness ==
    /\ task["j1"].pc = "done"
    /\ task["j1"].exc = "FFmpeg timed out (5 min)"
    /\ "j1" \in DOMAIN job_status
    /\ job_status["j1"].status = "failed"
    /\ job_status["j1"].error = "FFmpeg timed out (5 min)"
    /\ "download_url" \notin DOMAIN job_status["j1"]

\* the error text names the missing speech ("no speech", in any case)
MentionsNoSpeech(msg) == msg = "No speech detected"

\* the transcription of the job gave no cue: no segment, or only segments
\* whose text is empty or blank
NoCue(j) == task[j].transcribed /\ NumCues(task[j].segs) = 0

RenderPcs == {"overlay", "ffmpeg", "chk_out", "w_done", "chk_src", "rm_src",
              "chk_srt", "rm_srt"}

\* C10 as stated: a job whose transcription gave no cue never reaches the
\* render stage or completed, and ends failed with an error text that
\* names the missing speech.
C10_NoSpeechFails ==
    \A j \in Jobs :
        NoCue(j) =>
            /\ task[j].pc \notin RenderPcs
            /\ StatusOf(j) \notin {"embedding_subtitles", "completed"}
            /\ (task[j].pc = "done" /\ j \in DOMAIN job_status)
                   => /\ job_status[j].status = "failed"
                      /\ MentionsNoSpeech(job_status[j].error)

\* C10 as amended: such a job never reaches the render stage or completed
\* and ends failed; the error text is "No speech detected" when there was no
\* segment and "SRT file empty" when every segment was empty or blank.
C10_NoCueFails ==
    \A j \in Jobs :
        NoCue(j) =>
            /\ task[j].pc \notin RenderPcs
            /\ StatusOf(j) \notin {"embedding_subtitles", "completed"}
            /\ (task[j].pc = "done" /\ j \in DOMAIN job_status)
                   => /\ job_status[j].status = "failed"
                      /\ job_status[j].error =
                             IF task[j].segs = << >> THEN "No speech detected"
                             ELSE "SRT file empty"

\* the one segment returned was blank, and the task has ended failed
C10_Witness ==
    /\ task["j1"].pc = "done"
    /\ task["j1"].segs = <<0>>
    /\ "j1" \in DOMAIN job_status
    /\ job_status["j1"].status = "failed"
    /\ job_status["j1"].error = "SRT file empty"

\* ------------------------------------------------------------ C11

\* job k has left the program's state: no record, no time stamp, no entry in
\* user u's history or favourites, no file named after it
Gone(u, k) ==
    /\ k \notin DOMAIN job_status
    /\ k \notin DOMAIN user_jobs
    /\ k \notin DOMAIN file_timestamps
    /\ k \notin DOMAIN download_timestamps
    /\ \A i \in 1..Len(users[u].history) : users[u].history[i] # k
    /\ k \notin users[u].favorites
    /\ FilesOf(k) = {}

\* C11: delete_history_item by an existing user is total and idempotent: when
\* the handler returns, the job is absent from job_status, user_jobs,
\* file_timestamps, download_timestamps, the caller's history and favourites
\* and no file of the job is left, whatever state the job was in; and a
\* delete of a job that is already gone changes none of these.
C11_DeleteTotalIdempotent ==
    [][\A u \in Users, k \in Jobs :
          /\ (DeleteCleanup(u) /\ del[u].job = k) => Gone(u, k)'
          /\ (DeleteLocked(u, k) /\ Gone(u, k)) =>
                UNCHANGED <<job_status, user_jobs, file_timestamps,
                            download_timestamps, users, files>>]_vars

\* ------------------------------------------------------------ C12

\* Two requests side by side as in SpecPair, each task being a thread of its
\* own that the scheduler keeps running: a task that can take a step
\* eventually takes one.
SpecPairFair == SpecPair /\ \A j \in Jobs : WF_vars(process_video_task(j))

\* the values the program writes for job k
OwnFilenames(k) == {VideoName(k), TitleName(k), "YouTube Video"}
OwnDownloadUrl(k) == "/download/" \o k \o "_with_subtitles"

\* what a failed engine call raises: the transcription (no result, no
\* segment, no cue to write) or the renderer (error, timeout, empty output)
AdapterErrors ==
    {"Transcription failed", "No speech detected", "SRT file empty",
     "FFmpeg error", "FFmpeg timed out (5 min)",
     "Overlay failed: FFmpeg produced empty output"}

\* every field get_status(k) returns was written for k
Isolated(k) ==
    LET r == get_status(k)
    IN r # NotFound =>
         /\ r.filename \in OwnFilenames(k)
         /\ "download_url" \in DOMAIN r => r.download_url = OwnDownloadUrl(k)
         /\ "transcription" \in DOMAIN r => r.transcription = task[k].segs
         /\ "error" \in DOMAIN r =>
              r.error = IF task[k].pc = "idle" THEN "Failed to download YouTube video"
                        ELSE task[k].exc

\* C12: of two jobs submitted side by side, each one whose engine calls all
\* succeed reaches completed however the two tasks interleave, and in every
\* state get_status of a job returns the filename, error, transcription and
\* download_url written for that job, never a value written for the other.
C12_PairIndependent ==
    /\ [](\A k \in Jobs : Isolated(k))
    /\ \A k \in Jobs :
         (task[k].pc = "start") ~>
             (StatusOf(k) = "completed" \/ task[k].exc \in AdapterErrors)

\* both tasks have just written completed, one an upload and one a download
C12_Witness ==
    /\ task["j1"].pc = "chk_src" /\ task["j2"].pc = "chk_src"
    /\ StatusOf("j1") = "completed" /\ StatusOf("j2") = "completed"
    /\ job_status["j1"].filename # job_status["j2"].filename
    /\ task["j1"].is_youtube # task["j2"].is_youtube

\* ------------------------------------------------------------ caption compiler, called on its own

\* A time is a number of tenths of a millisecond; a time that comes out of a
\* division is kept exact as the fraction num/den of such units.
TicksPerSecond == 10000
Frac(n, d) == [num |-> n, den |-> d]
Min2(a, b) == IF a <= b THEN a ELSE b

\* round(a / b) as Python rounds: to the nearest integer, a half to the even one
RoundDiv(a, b) ==
    LET q == a \div b
        r == a % b
    IN IF 2 * r < b THEN q
       ELSE IF 2 * r > b THEN q + 1
       ELSE IF q % 2 = 0 THEN q ELSE q + 1

\* format_time (helpers.py:244-252): the four numbers printed as
\* HH:MM:SS,mmm; each field is printed with at least its width, so a number
\* too large for its field is printed in full
format_time(seconds) ==
    LET t == IF seconds.num < 0 THEN Frac(0, seconds.den) ELSE seconds
        unit == TicksPerSecond * t.den
        whole == t.num \div unit
        millis == RoundDiv((t.num - whole * unit) * 1000, unit)
    IN [hours |-> whole \div 3600, minutes |-> (whole % 3600) \div 60,
        secs |-> whole % 60, millis |-> millis]

\* chunks of one word more than max_words
Chunks_Eight(words) ==
    [i \in 1..((Len(words) + max_words) \div (max_words + 1)) |->
        SubSeq(words, (i - 1) * (max_words + 1) + 1,
               Min2(i * (max_words + 1), Len(words)))]
\* words[i:i + max_words] for i in range(0, len(words), max_words)
\* (helpers.py:273)
Chunks(words) ==
    [i \in 1..((Len(words) + max_words - 1) \div max_words) |->
        SubSeq(words, (i - 1) * max_words + 1, Min2(i * max_words, Len(words)))]

\* a cue that is written without the seventh word of its chunk
Cue_SixWords(idx, start, end, text) ==
    [idx |-> idx, start |-> start, end |-> end,
     line |-> [from |-> format_time(start), to |-> format_time(end)],
     text |-> SubSeq(text, 1, Min2(Len(text), max_words - 1))]
\* one cue as generate_srt computes and writes it: its index, its two times,
\* the line "start --> end" that format_time gives and its words
Cue(idx, start, end, text) ==
    [idx |-> idx, start |-> start, end |-> end,
     line |-> [from |-> format_time(start), to |-> format_time(end)],
     text |-> text]

\* a loop body that ends a short segment's cue where it starts
SegmentCues_NoEnd(seg, idx) ==
    IF seg.text = << >> THEN << >>
    ELSE <<Cue(idx, Frac(seg.start, 1), Frac(seg.start, 1), seg.text)>>
\* generate_srt, the body of the loop for one segment (helpers.py:260-281);
\* seg.text is the list of the words of the stripped text
SegmentCues(seg, idx) ==
    IF seg.text = << >> THEN << >>
    ELSE IF Len(seg.text) <= max_words
    THEN <<Cue(idx, Frac(seg.start, 1), Frac(seg.end, 1), seg.text)>>
    ELSE LET total_dur == seg.end - seg.start
             chunks == Chunks(seg.text)
             n == Len(chunks)
         IN [i \in 1..n |->
               Cue(idx + i - 1,
                   Frac(seg.start * n + (i - 1) * total_dur, n),
                   Frac(Min2(seg.start * n + i * total_dur, seg.end * n), n),
                   chunks[i])]

RECURSIVE SrtCues(_, _)
SrtCues(segments, idx) ==
    IF segments = << >> THEN << >>
    ELSE LET cues == SegmentCues(Head(segments), idx)
         IN cues \o SrtCues(Tail(segments), idx + Len(cues))

\* generate_srt (helpers.py:254-288): the cues written, and the exception
\* raised when the file is empty
generate_srt(segments) ==
    LET cues == SrtCues(segments, 1)
    IN [cues |-> cues, raised |-> IF cues = << >> THEN "SRT file empty" ELSE ""]

\* the segments a transcription can give: the start and the duration of a
\* segment and the number of its words; the words of the k-th segment are
\* k*100+1, k*100+2, ...
MaxSegments == 2
SegmentStarts == {0, 9996}
SegmentDurations == {0, 10000}
WordCounts == {0, 1, 7, 8, 15}
Segment(k, start, dur, n) ==
    [start |-> start, end |-> start + dur, text |-> [i \in 1..n |-> k * 100 + i]]
SegmentsAt(k) ==
    {Segment(k, s, d, n) : s \in SegmentStarts, d \in SegmentDurations, n \in WordCounts}
SegmentLists ==
    UNION {{segs \in [1..len -> UNION {SegmentsAt(k) : k \in 1..len}] :
               \A k \in 1..len : segs[k] \in SegmentsAt(k)} : len \in 1..MaxSegments}

\* a call of f on arg that has not returned yet
Call(f, arg) == [fn |-> f, arg |-> arg, done |-> FALSE]
Return(out) == [fn |-> calc.fn, arg |-> calc.arg, done |-> TRUE, out |-> out]
Called(f) == calc.fn = f /\ ~calc.done
Returned(f) == calc.fn = f /\ calc.done

\* ------------------------------------------------------------ style resolution

\* the values a client can send as caption position and text alignment: the
\* documented ones and some others
Positions ==
    {"top", "middle", "bottom", "top-left", "top-right", "bottom-left",
     "bottom-right", "middle-left", "center"}
TextAlignments == {"left", "center", "right", "justify"}
\* 'top' in position, 'middle' in position (helpers.py:90, 92)
ContainsTop(position) == position \in {"top", "top-left", "top-right"}
ContainsMiddle(position) == position \in {"middle", "middle-left"}

\* an anchor resolution that lets the text alignment move a corner
get_ass_alignment_CornerFollows(position, text_alignment) ==
    LET base == IF ContainsTop(position) THEN 7
                ELSE IF ContainsMiddle(position) THEN 4 ELSE 1
    IN IF text_alignment = "left" THEN base
       ELSE IF text_alignment = "right" THEN base + 2
       ELSE base + 1
\* get_ass_alignment (helpers.py:53-81)
get_ass_alignment(position, text_alignment) ==
    IF position \in {"bottom-left", "top-left"}
    THEN (IF position = "bottom-left" THEN 1 ELSE 7)
    ELSE IF position \in {"bottom-right", "top-right"}
    THEN (IF position = "bottom-right" THEN 3 ELSE 9)
    ELSE LET base == IF position = "top" THEN 7
                     ELSE IF position = "middle" THEN 4
                     ELSE 1
         IN IF text_alignment = "left" THEN base
            ELSE IF text_alignment = "right" THEN base + 2
            ELSE base + 1

\* margins that give the anchored side the smaller value
calculate_margins_NearSmall(position, ass_alignment) ==
    [margin_l |-> IF ass_alignment % 3 = 0 THEN "30" ELSE "10",
     margin_r |-> IF ass_alignment % 3 = 1 THEN "30" ELSE "10",
     margin_v |-> IF ContainsTop(position) THEN "30"
                  ELSE IF ContainsMiddle(position) THEN "0" ELSE "30"]
\* calculate_margins (helpers.py:83-110): the three margins, as the strings
\* written into the style line
calculate_margins(position, ass_alignment) ==
    LET margin_v == IF ContainsTop(position) THEN "30"
                    ELSE IF ContainsMiddle(position) THEN "0"
                    ELSE "30"
        alignment_mod == ass_alignment % 3
    IN IF alignment_mod = 1
       THEN [margin_l |-> "30", margin_r |-> "10", margin_v |-> margin_v]
       ELSE IF alignment_mod = 0
       THEN [margin_l |-> "10", margin_r |-> "30", margin_v |-> margin_v]
       ELSE [margin_l |-> "10", margin_r |-> "10", margin_v |-> margin_v]

AnchorCodes == 1..9

GetAssAlignment ==
    /\ Called("get_ass_alignment")
    /\ calc' = Return(get_ass_alignment(calc.arg.position, calc.arg.text_alignment))
    /\ UNCHANGED <<loader_vars, lock, job_status, file_timestamps, download_timestamps, users,
                   user_jobs, files, now, req, task, del, sweep, seen, deleted>>

CalculateMargins ==
    /\ Called("calculate_margins")
    /\ calc' = Return(calculate_margins(calc.arg.position, calc.arg.ass_alignment))
    /\ UNCHANGED <<loader_vars, lock, job_status, file_timestamps, download_timestamps, users,
                   user_jobs, files, now, req, task, del, sweep, seen, deleted>>

\* convert_srt_to_ass, the style resolution (helpers.py:153-156): the anchor
\* is resolved from the configured position and alignment and handed, with
\* the same position, to calculate_margins
convert_srt_to_ass(position, text_alignment) ==
    LET ass_alignment == get_ass_alignment(position, text_alignment)
    IN [ass_alignment |-> ass_alignment,
        margins |-> calculate_margins(position, ass_alignment)]

ConvertSrtToAss ==
    /\ Called("convert_srt_to_ass")
    /\ calc' = Return(convert_srt_to_ass(calc.arg.position, calc.arg.text_alignment))
    /\ UNCHANGED <<loader_vars, lock, job_status, file_timestamps, download_timestamps, users,
                   user_jobs, files, now, req, task, del, sweep, seen, deleted>>

\* convert_time_srt_to_ass (helpers.py:231-240): the fields of HH:MM:SS,mmm
\* are parsed, the seconds with their fraction as one number, and printed as
\* H:MM:SS.cc; the format 05.2f rounds the seconds to two decimals and prints
\* the result in full, so the printed seconds are the rounded centiseconds
\* divided by 100, whatever they come to
convert_time_srt_to_ass(time_str) ==
    LET hours == time_str.hours
        minutes == time_str.minutes
        centis == RoundDiv(time_str.secs * 1000 + time_str.millis, 10)
    IN [hours |-> hours, minutes |-> minutes,
        secs |-> centis \div 100, centis |-> centis % 100]

\* the well-formed timestamps a cue line can hold; the millisecond values
\* are those whose rounding to centiseconds does not hang on the binary
\* representation of the number
SrtHours == {0, 1, 12}
SrtMinutes == {0, 1, 59}
SrtSeconds == {0, 2, 59}
SrtMillis == {0, 125, 340, 344, 346, 994, 996, 999}
SrtTimes ==
    [hours : SrtHours, minutes : SrtMinutes, secs : SrtSeconds, millis : SrtMillis]

ConvertTime ==
    /\ Called("convert_time_srt_to_ass")
    /\ calc' = Return(convert_time_srt_to_ass(calc.arg))
    /\ UNCHANGED <<loader_vars, lock, job_status, file_timestamps, download_timestamps, users,
                   user_jobs, files, now, req, task, del, sweep, seen, deleted>>

\* the times handed to format_time, in tenths of a millisecond: negative
\* ones, ones whose fraction rounds down, ones whose fraction rounds up to a
\* full second, and whole seconds, minutes and hours
FormatTimes ==
    {-10000, -1, 0, 4, 6, 1234, 9994, 9996, 9999, 10000, 599996, 600000,
     35999996, 36000000, 36610004}

FormatTime ==
    /\ Called("format_time")
    /\ calc' = Return(format_time(Frac(calc.arg, 1)))
    /\ UNCHANGED <<loader_vars, lock, job_status, file_timestamps, download_timestamps, users,
                   user_jobs, files, now, req, task, del, sweep, seen, deleted>>

ProgramIdle ==
    /\ job_status = Empty
    /\ file_timestamps = Empty
    /\ download_timestamps = Empty
    /\ users = Empty
    /\ user_jobs = Empty
    /\ files = Empty
    /\ now = 0
    /\ req = [j \in Jobs |-> IdleReq]
    /\ task = [j \in Jobs |-> IdleTask]
    /\ del = [u \in Users |-> IdleDel]
    /\ sweep = IdleSweep
    /\ seen = [j \in Jobs |-> "none"]
    /\ deleted = [j \in Jobs |-> FALSE]
    /\ LoaderIdle
    /\ lock = NoThread

InitCompiler ==
    /\ ProgramIdle
    /\ \/ calc \in {Call("generate_srt", segs) : segs \in SegmentLists}
       \/ calc \in {Call("get_ass_alignment", [position |-> p, text_alignment |-> a]) :
                       p \in Positions, a \in TextAlignments}
       \/ calc \in {Call("calculate_margins", [position |-> p, ass_alignment |-> c]) :
                       p \in Positions, c \in AnchorCodes}
       \/ calc \in {Call("convert_time_srt_to_ass", t) : t \in SrtTimes}
       \/ calc \in {Call("convert_srt_to_ass", [position |-> p, text_alignment |-> a]) :
                       p \in Positions, a \in TextAlignments}
       \/ calc \in {Call("format_time", t) : t \in FormatTimes}

GenerateSrt ==
    /\ Called("generate_srt")
    /\ calc' = Return(generate_srt(calc.arg))
    /\ UNCHANGED <<loader_vars, lock, job_status, file_timestamps, download_timestamps, users,
                   user_jobs, files, now, req, task, del, sweep, seen, deleted>>

NextCompiler ==
    \/ GenerateSrt
    \/ GetAssAlignment
    \/ CalculateMargins
    \/ ConvertTime
    \/ ConvertSrtToAss
    \/ FormatTime

SpecCompiler == InitCompiler /\ [][NextCompiler]_vars

\* ------------------------------------------------------------ C13, C14

\* the cues written for the k-th segment: those holding its words
CuesFor(k) ==
    SelectSeq(calc.out.cues,
              LAMBDA c : \E i \in 1..Len(c.text) : c.text[i] \div 100 = k)

CeilDiv(a, b) == (a + b - 1) \div b

\* C13: for every segment of n > 7 words generate_srt writes ceil(n/7) cues
\* whose intervals partition the segment's interval: the first cue starts at
\* the segment's start, each cue ends where the next one starts, all cues
\* last the segment's duration divided by their number, and the last cue
\* ends at the segment's end; the written lines start, meet and end alike.
C13_LongSegmentPartition ==
    Returned("generate_srt") =>
        \A k \in 1..Len(calc.arg) :
            LET seg == calc.arg[k]
                cues == CuesFor(k)
                n == Len(cues)
            IN Len(seg.text) > max_words =>
                 /\ n = CeilDiv(Len(seg.text), max_words)
                 /\ cues[1].start.num = seg.start * cues[1].start.den
                 /\ cues[1].line.from = format_time(Frac(seg.start, 1))
                 /\ \A i \in 1..(n - 1) :
                        /\ cues[i].end = cues[i + 1].start
                        /\ cues[i].line.to = cues[i + 1].line.from
                 /\ \A i \in 1..n :
                        /\ cues[i].end.den = cues[i].start.den
                        /\ (cues[i].end.num - cues[i].start.num) * n
                             = (seg.end - seg.start) * cues[i].start.den
                 /\ cues[n].end.num = seg.end * cues[n].end.den
                 /\ cues[n].line.to = format_time(Frac(seg.end, 1))

\* a segment of 15 words and non-zero duration was cut into three cues
C13_Witness ==
    /\ Returned("generate_srt")
    /\ \E k \in 1..Len(calc.arg) :
          /\ Len(calc.arg[k].text) = 15
          /\ calc.arg[k].end > calc.arg[k].start
          /\ Len(CuesFor(k)) = 3

GridRow(position) == CASE position = "top" -> 2 [] position = "middle" -> 1 [] position = "bottom" -> 0
GridColumn(text_alignment) ==
    CASE text_alignment = "left" -> 1 [] text_alignment = "center" -> 2
      [] text_alignment = "right" -> 3

\* C15: get_ass_alignment returns a code in 1..9 for every position and
\* alignment; for top, middle, bottom with left, center, right it is the code
\* of the 3x3 grid (top 7-8-9, middle 4-5-6, bottom 1-2-3), and for a corner
\* position it is bottom-left 1, bottom-right 3, top-left 7, top-right 9
\* whatever the alignment.
C15_AnchorGrid ==
    Returned("get_ass_alignment") =>
        LET p == calc.arg.position
            a == calc.arg.text_alignment
        IN /\ calc.out \in 1..9
           /\ (p \in {"top", "middle", "bottom"} /\ a \in {"left", "center", "right"})
                 => calc.out = 3 * GridRow(p) + GridColumn(a)
           /\ p = "bottom-left" => calc.out = 1
           /\ p = "bottom-right" => calc.out = 3
           /\ p = "top-left" => calc.out = 7
           /\ p = "top-right" => calc.out = 9

\* a corner was resolved against the configured alignment
C15_Witness ==
    /\ Returned("get_ass_alignment")
    /\ calc.arg.position = "top-left"
    /\ calc.arg.text_alignment = "right"
    /\ calc.out = 7

MarginValue(m) == CASE m = "0" -> 0 [] m = "10" -> 10 [] m = "30" -> 30

\* C16 as stated: for a left-column anchor (1, 4, 7) the left margin is the
\* small one and the right margin the larger one, for a right-column anchor
\* (3, 6, 9) the right margin is the small one and the left margin the larger
\* one, for a center anchor (2, 5, 8) both are the small margin.
C16_NearSideSmall ==
    Returned("calculate_margins") =>
        LET l == MarginValue(calc.out.margin_l)
            r == MarginValue(calc.out.margin_r)
        IN /\ calc.arg.ass_alignment \in {1, 4, 7} => l < r
           /\ calc.arg.ass_alignment \in {3, 6, 9} => r < l
           /\ calc.arg.ass_alignment \in {2, 5, 8} => l = r

\* C16 amended: the side the text is anchored to gets the larger margin, 30,
\* and the opposite side the small one, 10; a center anchor gets the small
\* margin on both sides.
C16_NearSideLarge ==
    Returned("calculate_margins") =>
        LET l == MarginValue(calc.out.margin_l)
            r == MarginValue(calc.out.margin_r)
        IN /\ calc.arg.ass_alignment \in {1, 4, 7} => (l = 30 /\ r = 10)
           /\ calc.arg.ass_alignment \in {3, 6, 9} => (l = 10 /\ r = 30)
           /\ calc.arg.ass_alignment \in {2, 5, 8} => (l = 10 /\ r = 10)

\* the margins of a left-column anchor were computed
C16_Witness ==
    /\ Returned("calculate_margins")
    /\ calc.arg.ass_alignment = 4
    /\ calc.out.margin_l = "30"

\* ------------------------------------------------------------ C17

\* C17: for every well-formed HH:MM:SS,mmm convert_time_srt_to_ass gives
\* H:MM:SS.cc with the same hour, the same minute and second fields and cc
\* the millisecond field reduced to centiseconds, cut or rounded to the
\* nearest, so that the output tells the input to the centisecond;
\* 00:01:02,340 gives 0:01:02.34.
C17_SameFieldsCentiseconds ==
    Returned("convert_time_srt_to_ass") =>
        /\ calc.out.hours = calc.arg.hours
        /\ calc.out.minutes = calc.arg.minutes
        /\ calc.out.secs = calc.arg.secs
        /\ calc.out.centis \in {calc.arg.millis \div 10, RoundDiv(calc.arg.millis, 10)}
        /\ calc.out.centis \in 0..99

\* ------------------------------------------------------------ the lock, step by step

\* a lock taken before the transcription call and kept across it
EntersLock_BeforeCall(t) ==
    \/ t[1] = "task" /\ task[t[2]].pc \in {"start", "transcribe", "w_gen", "w_emb", "w_done", "except"}
    \/ t[1] = "request" /\ req[t[2]].pc \in {"scan", "record", "record_url", "except"}
\* thread t stands before a block `with processing_lock:`: the task before
\* one of its five writes (app.py:351, 360, 380, 389, 417), the request
\* handler before the scan of cleanup_old_files (app.py:86) or one of its
\* writes (app.py:466, 595, 614)
EntersLock(t) ==
    \/ t[1] = "task" /\ task[t[2]].pc \in {"start", "w_gen", "w_emb", "w_done", "except"}
    \/ t[1] = "request" /\ req[t[2]].pc \in {"scan", "record", "record_url", "except"}

\* processing_lock.acquire() as a step of its own: the thread then holds the
\* lock until its block has run
Acquire(t) ==
    /\ lock = NoThread
    /\ EntersLock(t)
    /\ lock' = t
    /\ UNCHANGED <<loader_vars, job_status, file_timestamps, download_timestamps, users,
                   user_jobs, files, now, req, task, del, sweep, seen, deleted, calc>>

\* The two requests of SpecPair with the lock taken in a step of its own, so
\* that a thread is seen holding it and the others wait for it.
NextLock ==
    \/ Tick
    \/ \E j \in Jobs : upload_video(j)
    \/ \E j \in Jobs : transcribe_video_url(j)
    \/ \E j \in Jobs : ReqReclaim(j)
    \/ \E j \in Jobs : process_video_task(j)
    \/ \E j \in Jobs : Acquire(TaskThread(j))
    \/ \E j \in Jobs : Acquire(ReqThread(j))

SpecLock == Init /\ [][NextLock]_vars

\* ------------------------------------------------------------ C18

\* the task is inside model.transcribe or overlay_subtitles, the handler
\* inside download_youtube_video
InAdapterCall(t) ==
    \/ t[1] = "task" /\ task[t[2]].pc \in {"transcribe", "overlay", "ffmpeg"}
    \/ t[1] = "request" /\ req[t[2]].pc = "download"

\* C18: no thread holds processing_lock while it is inside model.transcribe,
\* download_youtube_video or overlay_subtitles: whoever holds the lock is at a
\* status write, so during one job's engine call the lock is free or held by
\* a thread that is writing or reading, and the other job's writes and
\* get_status go on.
C18_NoLockAcrossAdapterCall ==
    \A j \in Jobs :
        /\ InAdapterCall(TaskThread(j)) => lock # TaskThread(j)
        /\ InAdapterCall(ReqThread(j)) => lock # ReqThread(j)
        /\ lock \in {TaskThread(j), ReqThread(j)} => EntersLock(lock)

\* one job's task is inside the renderer while the other job's task holds
\* the lock for its status write
C18_Witness ==
    /\ task["j1"].pc = "ffmpeg"
    /\ lock = TaskThread("j2")
    /\ task["j2"].pc = "w_gen"

\* ------------------------------------------------------------ C19

\* the status a reader must be shown while the task is at each of its calls:
\* model.transcribe, generate_srt, overlay_subtitles
StageOfCall(pc) ==
    CASE pc = "transcribe" -> "transcribing"
      [] pc = "generate_srt" -> "generating_captions"
      [] pc \in {"overlay", "ffmpeg"} -> "embedding_subtitles"

\* C19: each stage's status write comes before the stage's call: for a job
\* whose record was not deleted meanwhile, get_status reports transcribing
\* while the task is in the transcription call, generating_captions while it
\* generates the captions and embedding_subtitles while it is in the overlay
\* call, so no call of a stage starts under the status of the stage before.
C19_WriteBeforeCall ==
    \A j \in Jobs :
        (~deleted[j] /\ task[j].pc \in {"transcribe", "generate_srt", "overlay", "ffmpeg"})
            => /\ get_status(j) # NotFound
               /\ get_status(j).status = StageOfCall(task[j].pc)

\* the renderer is running for a job nobody deleted
C19_Witness ==
    /\ task["j1"].pc = "ffmpeg"
    /\ ~deleted["j1"]
    /\ StatusOf("j1") = "embedding_subtitles"

\* ------------------------------------------------------------ C20

\* The process of Spec with its task threads scheduled fairly: every engine
\* call returns, raises or runs into its timeout, and a task that can take
\* a step eventually takes one.
SpecFair == Spec /\ \A j \in Solo : WF_vars(process_video_task(j))

RenderTimeout == "FFmpeg timed out (5 min)"

\* C20: every task that was started ends, and before it ends completed or
\* failed is written for its job, from whichever stage a failure happens; a
\* renderer that runs into its timeout gives failed with the timeout as
\* error, not a task that stays in embedding_subtitles.
C20_TaskTerminates ==
    \A j \in Jobs :
        /\ (task[j].pc = "start") ~> (StatusOf(j) \in TerminalStatuses)
        /\ (task[j].pc = "start") ~> (task[j].pc = "done")
        /\ (task[j].pc = "except" /\ task[j].exc = RenderTimeout)
              ~> (StatusOf(j) = "failed" /\ job_status[j].error = RenderTimeout)

\* the task ended after the renderer ran into its timeout
C20_Witness ==
    /\ task["j1"].pc = "done"
    /\ task["j1"].exc = RenderTimeout
    /\ StatusOf("j1") = "failed"
    /\ job_status["j1"].error = RenderTimeout

\* ------------------------------------------------------------ C21

\* what a reclaim pass needs, besides age, to select job k: a time stamp to
\* compare with the cutoff and a terminal status (app.py:88-90)
Reclaimable(k) == k \in DOMAIN file_timestamps /\ StatusOf(k) \in TerminalStatuses

\* C21: the files that the task of a job deleted while it was running has
\* left under the job's id when it ends are removed by a later reclaim pass
\* once the retention window has elapsed: the job is one a pass can select,
\* having a time stamp and a terminal status (time stamps are written at
\* submission only, so a job without one is never selected).
C21_LateFilesReclaimable ==
    \A j \in Jobs :
        (deleted[j] /\ task[j].pc = "done" /\ del = [u \in Users |-> IdleDel]
            /\ FilesOf(j) # {})
          => Reclaimable(j)

\* ------------------------------------------------------------ C22

\* C22: when the task of a job has ended with status completed, the job
\* being neither deleted nor old enough for a reclaim pass, the source, the
\* .srt caption file and the .ass markup file no longer exist: the only file
\* under the job's id is the rendered output, which is not empty.
C22_OnlyOutputLeft ==
    \A j \in Jobs :
        (/\ task[j].pc = "done" /\ task[j].exc = ""
         /\ StatusOf(j) = "completed" /\ ~deleted[j]
         /\ j \in DOMAIN file_timestamps /\ ~Expired(j))
          => /\ FilesOf(j) = {<<j, "out">>}
             /\ files[<<j, "out">>] > 0

\* ------------------------------------------------------------ C23

\* the caller of the submission of job k has been given the job id
HoldsJobId(k) == req[k].code = 202

\* C23: a submission writes the job's first record, starts the task and
\* answers with the job id without waiting for an engine call, for uploads
\* and URLs alike: while the retrieval of a URL is running the caller already
\* holds the job id, and the caller of every job that has a record, a failed
\* retrieval included, holds its id and can read the record by get_status.
C23_SubmitReturnsFirst ==
    \A j \in Jobs :
        /\ req[j].pc = "download" => HoldsJobId(j)
        /\ (req[j].pc = "done" /\ get_status(j) # NotFound) => HoldsJobId(j)

\* ------------------------------------------------------------ C24

\* The two requests of SpecPair with the periodic sweep beside them: reclaim
\* passes run by a submission and by the sweep.
NextReclaim ==
    \/ Tick
    \/ \E j \in Jobs : upload_video(j)
    \/ \E j \in Jobs : transcribe_video_url(j)
    \/ \E j \in Jobs : ReqReclaim(j)
    \/ \E j \in Jobs : process_video_task(j)
    \/ periodic_cleanup

SpecReclaim == Init /\ [][NextReclaim]_vars

\* a step of a reclaim pass, run by a submission or by the sweep
ReclaimStep ==
    \/ SweepScan
    \/ SweepClean
    \/ \E j \in Jobs : ReqScan(j) \/ ReqClean(j)

\* a completed or failed job that is not older than the retention window
YoungTerminal(k) ==
    /\ k \in DOMAIN file_timestamps
    /\ StatusOf(k) \in TerminalStatuses
    /\ now - file_timestamps[k] <= RetentionHours

\* C24: a reclaim pass touches only jobs older than the retention window of
\* 6 hours: no step of a pass, run by a submission or by the periodic sweep,
\* changes the files, the record or the time stamp of a completed or failed
\* job that is not older than the window, nor selects it.
C24_ReclaimSparesYoungJobs ==
    [][\A k \in Jobs :
          (ReclaimStep /\ YoungTerminal(k)) =>
              /\ \A f \in FilesOf(k) : f \in DOMAIN files' /\ files'[f] = files[f]
              /\ get_status(k)' = get_status(k)
              /\ k \in DOMAIN file_timestamps'
              /\ file_timestamps'[k] = file_timestamps[k]
              /\ k \notin sweep'.rem
              /\ \A j \in Jobs : k \notin req'[j].rem]_vars

\* a pass removes the files of an old job while a job exactly as old as the
\* window, failed and with a file left, is kept
C24_Witness ==
    /\ YoungTerminal("j2")
    /\ now - file_timestamps["j2"] = RetentionHours
    /\ FilesOf("j2") # {}
    /\ \/ sweep.pc = "clean" /\ sweep.rem = {"j1"}
       \/ req["j2"].pc = "clean"

\* C25: a tick of periodic_cleanup starts the reclaim pass only when the usage
\* it measures is more than 0.8 of TEMP_STORAGE_LIMIT: while the sweep sleeps
\* and the usage is at or below that fraction, no step takes the sweep out of
\* its sleep, and a step of the sweep changes no file, no job record and no
\* time stamp.
AtOrBelowFraction == get_directory_size * 10 <= TEMP_STORAGE_LIMIT * SweepTenths

C25_SweepOnlyOverFraction ==
    [][(sweep.pc = "sleep" /\ AtOrBelowFraction) =>
          /\ sweep' = sweep
          /\ periodic_cleanup =>
                UNCHANGED <<files, job_status, file_timestamps, download_timestamps>>]_vars

\* a tick has measured more than the fraction and the reclaim pass is about
\* to scan
C25_Witness ==
    /\ sweep.pc = "scan"
    /\ ~AtOrBelowFraction
    /\ get_directory_size <= TEMP_STORAGE_LIMIT

\* ------------------------------------------------------------ C26

\* the row of an anchor code: 0 bottom (1, 2, 3), 1 middle (4, 5, 6), 2 top
\* (7, 8, 9)
AnchorRow(ass_alignment) == (ass_alignment - 1) \div 3

\* C26: for every position value, the unrecognized ones included, the vertical
\* margin that the style resolution gets from calculate_margins is 0 exactly
\* when get_ass_alignment resolved a middle-row anchor (4, 5, 6), and the fixed
\* non-zero margin exactly when the anchor is in the top or the bottom row.
C26_MarginFollowsAnchorRow ==
    Returned("convert_srt_to_ass") =>
        /\ calc.out.margins.margin_v = "0" <=> AnchorRow(calc.out.ass_alignment) = 1
        /\ calc.out.margins.margin_v = "30" <=> AnchorRow(calc.out.ass_alignment) \in {0, 2}

\* ------------------------------------------------------------ C27

\* the words of a list of cues or of segments, in the order of the list
RECURSIVE WordsOf(_)
WordsOf(items) ==
    IF items = << >> THEN << >> ELSE Head(items).text \o WordsOf(Tail(items))

\* C27: for every list of segments, every cue that generate_srt writes has
\* between 1 and 7 words, the cues of a segment taken in the order written
\* hold exactly the segment's words, the cues follow the order of the
\* segments and are numbered 1, 2, 3, ... without a gap, and a segment of no
\* words gives no cue and takes no number.
C27_NothingLostOrReordered ==
    Returned("generate_srt") =>
        LET cues == calc.out.cues
        IN /\ \A i \in 1..Len(cues) :
                  /\ Len(cues[i].text) \in 1..max_words
                  /\ cues[i].idx = i
           /\ \A k \in 1..Len(calc.arg) : WordsOf(CuesFor(k)) = calc.arg[k].text
           /\ WordsOf(cues) = WordsOf(calc.arg)

\* a segment of no words followed by one that is cut into three cues
C27_Witness ==
    /\ Returned("generate_srt")
    /\ Len(calc.arg) = 2
    /\ calc.arg[1].text = << >>
    /\ Len(calc.arg[2].text) = 2 * max_words + 1
    /\ Len(calc.out.cues) = 3
    /\ calc.out.cues[1].idx = 1

\* ------------------------------------------------------------ C28

\* how many times job k stands in user u's history
TimesInHistory(u, k) ==
    Cardinality({i \in 1..Len(users[u].history) : users[u].history[i] = k})

\* C28: a job whose task runs with the token of an existing user is in that
\* user's history exactly once when the task has ended, whichever way it went
\* through process_video_task and no delete request came in the meantime,
\* and no history ever holds a job id twice.
C28_HistoryOnce ==
    [][\A u \in DOMAIN users' : \A j \in Jobs :
          /\ TimesInHistory(u, j)' <= 1
          /\ (/\ task[j].pc # "done" /\ task'[j].pc = "done"
              /\ task[j].token = u
              /\ ~deleted'[j])
                => TimesInHistory(u, j)' = 1]_vars

\* ------------------------------------------------------------ C29

\* C29: in every reachable state every job id that has a record in job_status
\* has an entry in file_timestamps, so that the reclaim scan can select it
\* once it is terminal and old enough.
C29_RecordHasTimestamp ==
    \A j \in DOMAIN job_status : j \in DOMAIN file_timestamps

\* ------------------------------------------------------------ C30

\* what the dict d holds for key k: nothing, or one value
EntryOf(d, k) == IF k \in DOMAIN d THEN <<d[k]>> ELSE << >>
\* the files of job k with their sizes
FileSizesOf(k) == [f \in FilesOf(k) |-> files[f]]
\* a step of user u's delete request for job k
DeleteStep(u, k) ==
    /\ del'[u] # del[u]
    /\ k \in {del[u].job, del'[u].job}

\* C30: a delete request by an authenticated user for a job that is not in
\* that user's history and was not submitted with that user's token changes
\* nothing of the job: its record in job_status and in user_jobs, its two time
\* stamps and its files stay as they are.
C30_DeleteOnlyOwnJobs ==
    [][\A u \in DOMAIN users : \A k \in Jobs :
          (/\ DeleteStep(u, k)
           /\ task[k].token # u
           /\ TimesInHistory(u, k) = 0)
             => /\ EntryOf(job_status, k)' = EntryOf(job_status, k)
                /\ EntryOf(user_jobs, k)' = EntryOf(user_jobs, k)
                /\ EntryOf(file_timestamps, k)' = EntryOf(file_timestamps, k)
                /\ EntryOf(download_timestamps, k)' = EntryOf(download_timestamps, k)
                /\ FileSizesOf(k)' = FileSizesOf(k)]_vars

\* ------------------------------------------------------------ C32

\* the time that a printed HH:MM:SS,mmm reads back to, in tenths of a
\* millisecond
ReadBack(stamp) ==
    ((stamp.hours * 3600 + stamp.minutes * 60 + stamp.secs) * 1000 + stamp.millis)
        * (TicksPerSecond \div 1000)
\* half a millisecond, in tenths of a millisecond
HalfMilli == TicksPerSecond \div 2000
Distance(a, b) == IF a >= b THEN a - b ELSE b - a

\* C32: for every time of zero or more tenths of a millisecond format_time
\* gives a stamp whose seconds are in 0..59, whose minutes are in 0..59 and
\* whose milliseconds are in 0..999, a fraction that rounds up to a full
\* second being carried into the seconds, and the stamp reads back to the
\* input within half a millisecond; a negative time gives 00:00:00,000.
C32_WellFormedStamp ==
    Returned("format_time") =>
        IF calc.arg >= 0
        THEN /\ calc.out.secs \in 0..59
             /\ calc.out.minutes \in 0..59
             /\ calc.out.millis \in 0..999
             /\ Distance(ReadBack(calc.out), calc.arg) <= HalfMilli
        ELSE calc.out = [hours |-> 0, minutes |-> 0, secs |-> 0, millis |-> 0]

\* ------------------------------------------------------------ load_whisper_model

\* the successful whisper.load_model calls the model follows
MaxLoads == 2

LoaderAt(j, pc) == [loader EXCEPT ![j].pc = pc]
\* `return whisper_model` or `raise`, leaving the with block
LoaderLeaves(j, pc, out) == [loader EXCEPT ![j] = [pc |-> pc, out |-> out]]
\* the object that the next successful whisper.load_model(name) makes
Loaded(model_name) == [id |-> loads + 1, name |-> model_name]

\* a task thread calls load_whisper_model (app.py:354) and comes to the with
\* statement
LoadCall(j) ==
    /\ loader[j].pc \in {"idle", "returned", "raised"}
    /\ loader' = LoaderLeaves(j, "call", None)
    /\ UNCHANGED <<whisper_model, model_load_lock, loads>>

\* with model_load_lock: (app.py:127)
LoadAcquire(j) ==
    /\ loader[j].pc = "call"
    /\ model_load_lock = NoLoader
    /\ model_load_lock' = j
    /\ loader' = LoaderAt(j, "check")
    /\ UNCHANGED <<whisper_model, loads>>

\* a caller that goes on to load whatever whisper_model holds
LoadCheck_NoTest(j) ==
    /\ loader[j].pc = "check"
    /\ loader' = LoaderAt(j, "load")
    /\ UNCHANGED <<whisper_model, model_load_lock, loads>>
\* if whisper_model is not None: return whisper_model (app.py:128-129)
LoadCheck(j) ==
    /\ loader[j].pc = "check"
    /\ IF whisper_model # None
       THEN /\ loader' = LoaderLeaves(j, "returned", whisper_model)
            /\ model_load_lock' = NoLoader
       ELSE /\ loader' = LoaderAt(j, "load")
            /\ UNCHANGED model_load_lock
    /\ UNCHANGED <<whisper_model, loads>>

\* the try block (app.py:130-137): the name follows the available memory;
\* psutil or whisper.load_model may raise
LoadModel(j) ==
    /\ loader[j].pc = "load"
    /\ \E model_name \in {"tiny", "base"}, raises \in BOOLEAN :
         IF raises
         THEN /\ loader' = LoaderAt(j, "fallback")
              /\ UNCHANGED <<whisper_model, model_load_lock, loads>>
         ELSE /\ loads < MaxLoads
              /\ whisper_model' = Loaded(model_name)
              /\ loads' = loads + 1
              /\ loader' = LoaderLeaves(j, "returned", Loaded(model_name))
              /\ model_load_lock' = NoLoader

\* the except block (app.py:138-146): the tiny model, or the error raised
LoadFallback(j) ==
    /\ loader[j].pc = "fallback"
    /\ \E raises \in BOOLEAN :
         IF raises
         THEN /\ loader' = LoaderLeaves(j, "raised", None)
              /\ model_load_lock' = NoLoader
              /\ UNCHANGED <<whisper_model, loads>>
         ELSE /\ loads < MaxLoads
              /\ whisper_model' = Loaded("tiny")
              /\ loads' = loads + 1
              /\ loader' = LoaderLeaves(j, "returned", Loaded("tiny"))
              /\ model_load_lock' = NoLoader

load_whisper_model(j) ==
    /\ \/ LoadCall(j)
       \/ LoadAcquire(j)
       \/ LoadCheck(j)
       \/ LoadModel(j)
       \/ LoadFallback(j)
    /\ UNCHANGED <<job_status, file_timestamps, download_timestamps, users,
                   user_jobs, files, now, req, task, del, sweep, seen, deleted,
                   calc, lock>>

\* The task threads calling load_whisper_model, each as often as it has jobs.
NextLoader == \E j \in LoaderThreads : load_whisper_model(j)

SpecLoader == Init /\ [][NextLoader]_vars

\* ------------------------------------------------------------ C31

\* thread j is between the with statement and its return or raise
InLoadLock(j) == loader[j].pc \in {"check", "load", "fallback"}
\* thread j is inside a whisper.load_model call
InLoadCall(j) == loader[j].pc \in {"load", "fallback"}

\* C31: with several task threads calling load_whisper_model, at most one
\* whisper.load_model call ever returns a model; the test of whisper_model
\* and the load are done by the holder of model_load_lock; no two threads
\* are loading at the same time; and every call that returns gives the one
\* object that whisper_model holds.
C31_OneLoad ==
    /\ loads <= 1
    /\ \A j \in LoaderThreads : InLoadLock(j) => model_load_lock = j
    /\ \A j, k \in LoaderThreads : (InLoadCall(j) /\ InLoadCall(k)) => j = k
    /\ \A j \in LoaderThreads :
          loader[j].pc = "returned" =>
              /\ loader[j].out # None
              /\ loader[j].out = whisper_model
    /\ \A j, k \in LoaderThreads :
          (loader[j].pc = "returned" /\ loader[k].pc = "returned")
              => loader[j].out = loader[k].out

\* one thread saw both loads fail, another then loaded the tiny model, and a
\* third was given the same object
C31_Witness ==
    /\ loads = 1
    /\ whisper_model.name = "tiny"
    /\ loader["j1"].pc = "returned"
    /\ loader["j2"].pc = "returned"
    /\ loader["j3"].pc = "raised"
    /\ loader["j2"].out = whisper_model

====
